---------------------------- MODULE Spec2Model ----------------------------
(***************************************************************************)
(* Model of silk's LeaseController (daemon/lib/lease_controller.go) and of *)
(* the veth Manager exercised by the veth test suite.                      *)
(*                                                                         *)
(* Several daemons, each holding one LeaseController, share one lease      *)
(* store.  A controller is a sequential program; the daemons interleave at *)
(* the granularity of single collaborator calls (Migrate,                  *)
(* LeaseForUnderlayIP, All, GetAvailable/GenerateForVTEP, AddEntry,        *)
(* DeleteEntry).                                                           *)
(***************************************************************************)
EXTENDS Naturals, FiniteSets, Sequences, TLC

(***************************************************************************)
(* Bounds of the model.                                                    *)
(***************************************************************************)
\* number of subnets the configured range yields (K)
NumSubnets == 2
\* largest AcquireSubnetLeaseAttempts a configuration is drawn from
MaxAcquireAttempts == 2

\* longest record kept of the operations that succeeded on one pair
MaxTrail == 4

\* LeaseController.MaxMigrationAttempts as set by NewLeaseController
MaxMigrationAttempts == 5

Controllers == {"c1", "c2"}
Hosts == {"h1", "h2", "h3"}

\* cfg.UnderlayIP of each daemon
UnderlayIP(c) == IF c = "c1" THEN "h1" ELSE "h2"

VARIABLES
  store,          \* the rows of the subnets table: a set of leases
  applied,        \* the migrations the store has applied
  uniqueSubnet,   \* whether the store's insert also rejects a duplicate overlaySubnet
  attempts,       \* LeaseController.AcquireSubnetLeaseAttempts
  pc,             \* per controller: where its daemon stands
  nErrors,        \* TryMigrations: nErrors
  migrated,       \* per controller: a Migrate call of its daemon has succeeded
  arg,            \* AcquireSubnetLease: underlayIP
  numErrs,        \* AcquireSubnetLease: numErrs
  taken,          \* tryAcquireLease: taken, built from the leases All returned
  cand,           \* tryAcquireLease: lease, built for AddEntry
  made,           \* per controller: Migrate calls (in TryMigrations) or All calls
                  \* (in AcquireSubnetLease) its running operation has made
  granted,        \* per host: subnets handed out by a successful acquisition
                  \* and not given back by a successful release since
  last            \* the step just taken: who took it, the collaborator calls it
                  \* made, and what the operation returned if it returned

lcVars == <<store, applied, uniqueSubnet, attempts, pc, nErrors, migrated, arg,
            numErrs, taken, cand, made, granted, last>>

VARIABLES
  nsPath,         \* veth.Manager: HostNSPath and ContainerNSPath
  mgr,            \* veth.Manager: HostNS and ContainerNS, "" while unresolved
  links,          \* the kernel's links: namespace, name and peer of each
  addrs,          \* the kernel's addresses, each on a link of a namespace
  pairs,          \* the veth.Pair values CreatePair has returned
  trail,          \* per container interface name: the operations that succeeded
                  \* on the pair of that name since it was created
  vlast           \* the Manager operation just performed and what it returned

vethVars == <<nsPath, mgr, links, addrs, pairs, trail, vlast>>

vars == <<lcVars, vethVars>>

(***************************************************************************)
(* Values.                                                                 *)
(***************************************************************************)
\* a nil *controller.Lease is the empty set, a non-nil one a singleton
Nil == {}
Ptr(l) == {l}

\* an error is the sequence of the parts of its message; nil is empty
NoErr == <<>>
\* fmt.Errorf("<context>: %s", err)
Errorf(context, e) == <<context>> \o e

ErrTransient == <<"connection refused">>
ErrLocked == <<"table locked">>
ErrNoRows == <<"no rows in result set">>
ErrDuplicate == <<"duplicate key value">>
ErrNotFound == <<"no lease found">>
ErrExhausted == <<"no subnets available">>
ErrBadCIDR == <<"invalid CIDR address">>
ErrBadFamily == <<"unsupported address family">>

\* the i-th subnet of the range is 10.255.i.0/24
Subnets == 1..NumSubnets
\* net.ParseCIDR: the address part of the subnet
ParseCIDR(subnet) == <<10, 255, subnet, 0>>

\* a step that made no call and returned nothing
NoStep == [c |-> "", call |-> {}, callErr |-> NoErr, n |-> 0, op |-> "none",
           arg |-> "", lease |-> Nil, leases |-> {}, err |-> NoErr, made |-> 0,
           log |-> "", logN |-> 0, logLease |-> Nil]
\* a step of c that called the collaborator functions `call`, the last of which
\* returned e
Step(c, call, e) == [NoStep EXCEPT !.c = c, !.call = call, !.callErr = e]

(***************************************************************************)
(* The collaborators.                                                      *)
(***************************************************************************)
Migrations == {"create_subnets_table"}

\* databaseHandler.LeaseForUnderlayIP
DBLeaseFor(h) == {l \in store : l.UnderlayIP = h}

\* databaseHandler.AddEntry: the insert's uniqueness constraints
DBConflict(l) ==
  \E m \in store : \/ m.UnderlayIP = l.UnderlayIP
                   \/ uniqueSubnet /\ m.OverlaySubnet = l.OverlaySubnet

\* cidrPool.GetAvailable: the first candidate, in address order, not taken
PoolAvailable(used) == Subnets \ used
PoolFirst(used) == CHOOSE s \in PoolAvailable(used) : \A t \in PoolAvailable(used) : s <= t

\* hardwareAddressGenerator.GenerateForVTEP: ee:ee: followed by the address
GenerateForVTEP(ip) == <<238, 238>> \o ip

(***************************************************************************)
(* The decisions of the controller's code.                                 *)
(***************************************************************************)
\* a loop that runs once too often
MigrationLoopOnceMore(n) == n <= MaxMigrationAttempts
\* TryMigrations: for nErrors < c.MaxMigrationAttempts
MigrationLoop(n) == n < MaxMigrationAttempts

\* a constructor that overlooks the error of TryMigrations
ControllerAlwaysReturned(e) == TRUE
\* NewLeaseController: if err = TryMigrations(); err != nil { return nil, ... }
ControllerReturned(e) == e = NoErr

\* ReleaseSubnetLease: DeleteEntry(c.UnderlayIP)
ReleaseKey(c) == UnderlayIP(c)

\* a release that overlooks the error of DeleteEntry
DeleteEntryErrorIgnored(e) == FALSE
\* ReleaseSubnetLease: err := DeleteEntry(...); if err != nil { return ... }
DeleteEntryFailed(e) == e # NoErr

\* an acquisition that overlooks the lease it looked up
RenewedNever(lease) == FALSE
\* AcquireSubnetLease: if lease != nil { return lease, nil }
Renewed(lease) == lease # Nil

\* a loop that runs once too often
AcquireLoopOnceMore(n) == n <= attempts
\* AcquireSubnetLease: for numErrs := 0; numErrs < c.AcquireSubnetLeaseAttempts
AcquireLoop(n) == n < attempts

\* an attempt that forgets the leases it read
TakenForgotten(ls) == {}
\* tryAcquireLease: taken = append(taken, lease.OverlaySubnet)
Taken(ls) == {l.OverlaySubnet : l \in ls}

\* a lease built without its hardware address
NewLeaseNoHardwareAddr(underlayIP, subnet, hwAddr) ==
  [UnderlayIP |-> underlayIP, OverlaySubnet |-> subnet, OverlayHardwareAddr |-> <<>>]
\* tryAcquireLease: &controller.Lease{...}
NewLease(underlayIP, subnet, hwAddr) ==
  [UnderlayIP |-> underlayIP, OverlaySubnet |-> subnet, OverlayHardwareAddr |-> hwAddr]

\* an attempt that overlooks the error of AddEntry
AddEntryErrorIgnored(e) == FALSE
\* tryAcquireLease: err = AddEntry(lease); if err != nil { return nil, ... }
AddEntryFailed(e) == e # NoErr

(***************************************************************************)
(* Initial state.                                                          *)
(***************************************************************************)
InitLC ==
  /\ store = {}
  /\ applied = {}
  /\ attempts \in 1..MaxAcquireAttempts
  /\ pc = [c \in Controllers |-> "new"]
  /\ nErrors = [c \in Controllers |-> 0]
  /\ migrated = [c \in Controllers |-> FALSE]
  /\ arg = [c \in Controllers |-> ""]
  /\ numErrs = [c \in Controllers |-> 0]
  /\ taken = [c \in Controllers |-> {}]
  /\ cand = [c \in Controllers |-> Nil]
  /\ made = [c \in Controllers |-> 0]
  /\ granted = [h \in Hosts |-> {}]
  /\ last = NoStep

(***************************************************************************)
(* NewLeaseController and TryMigrations.                                   *)
(***************************************************************************)
\* TryMigrations has returned e: NewLeaseController returns the controller or
\* (nil, "migrating database: ...")
TryMigrationsReturns(c, e, step) ==
  /\ pc' = [pc EXCEPT ![c] = IF ControllerReturned(e) THEN "ready" ELSE "failed"]
  /\ nErrors' = [nErrors EXCEPT ![c] = 0]
  /\ made' = [made EXCEPT ![c] = 0]
  /\ last' = [step EXCEPT !.op = "NewLeaseController",
                          !.err = IF ControllerReturned(e) THEN NoErr
                                  ELSE Errorf("migrating database", e)]

\* db.GetConnectionPool succeeds; TryMigrations enters its loop
NewLeaseController(c) ==
  /\ pc[c] = "new"
  /\ IF MigrationLoop(0)
     THEN /\ pc' = [pc EXCEPT ![c] = "migrate"]
          /\ last' = Step(c, {"GetConnectionPool"}, NoErr)
          /\ UNCHANGED <<nErrors, made>>
     ELSE TryMigrationsReturns(c, Errorf("creating table", NoErr),
                               Step(c, {"GetConnectionPool"}, NoErr))
  /\ UNCHANGED <<store, applied, uniqueSubnet, attempts, migrated, arg, numErrs,
                 taken, cand, granted,
                 vethVars>>

\* db.GetConnectionPool fails
ConnectFails(c) ==
  /\ pc[c] = "new"
  /\ pc' = [pc EXCEPT ![c] = "failed"]
  /\ last' = [Step(c, {"GetConnectionPool"}, ErrTransient)
               EXCEPT !.op = "NewLeaseController",
                      !.err = Errorf("connecting to database", ErrTransient)]
  /\ UNCHANGED <<store, applied, uniqueSubnet, attempts, nErrors, migrated, arg,
                 numErrs, taken, cand, made, granted,
                 vethVars>>

\* one pass of the loop of TryMigrations whose Migrate succeeds
MigrateOK(c) ==
  /\ pc[c] = "migrate"
  /\ applied' = Migrations
  /\ migrated' = [migrated EXCEPT ![c] = TRUE]
  /\ LET n == Cardinality(Migrations \ applied)
     IN TryMigrationsReturns(c, NoErr,
          [Step(c, {"Migrate"}, NoErr) EXCEPT !.n = n, !.made = made[c] + 1,
                                              !.log = "db-migration-complete",
                                              !.logN = n])
  /\ UNCHANGED <<store, uniqueSubnet, attempts, arg, numErrs, taken, cand, granted,
                 vethVars>>

\* one pass of the loop of TryMigrations whose Migrate fails with e
MigrateFails(c, e) ==
  /\ pc[c] = "migrate"
  /\ IF MigrationLoop(nErrors[c] + 1)
     THEN /\ nErrors' = [nErrors EXCEPT ![c] = @ + 1]
          /\ made' = [made EXCEPT ![c] = @ + 1]
          /\ last' = Step(c, {"Migrate"}, e)
          /\ pc' = pc
     ELSE TryMigrationsReturns(c, Errorf("creating table", e),
                               [Step(c, {"Migrate"}, e) EXCEPT !.made = made[c] + 1])
  /\ UNCHANGED <<store, applied, uniqueSubnet, attempts, migrated, arg, numErrs,
                 taken, cand, granted,
                 vethVars>>

(***************************************************************************)
(* AcquireSubnetLease and tryAcquireLease.                                 *)
(***************************************************************************)
\* the subnets handed out, after an acquisition for host h returned (lease, e)
Grant(h, lease, e) ==
  IF e = NoErr /\ lease # Nil
  THEN [granted EXCEPT ![h] = @ \cup Taken(lease)]
  ELSE granted

\* AcquireSubnetLease returns (lease, e)
AcquireReturns(c, h, lease, e, step) ==
  /\ pc' = [pc EXCEPT ![c] = "ready"]
  /\ arg' = [arg EXCEPT ![c] = ""]
  /\ numErrs' = [numErrs EXCEPT ![c] = 0]
  /\ made' = [made EXCEPT ![c] = 0]
  /\ granted' = Grant(h, lease, e)
  /\ last' = [step EXCEPT !.op = "AcquireSubnetLease", !.arg = h, !.lease = lease,
                          !.err = e]

\* LeaseForUnderlayIP has returned (lease, e)
AfterLookup(c, h, lease, e) ==
  /\ IF Renewed(lease)
     THEN AcquireReturns(c, h, lease, NoErr,
            [Step(c, {"LeaseForUnderlayIP"}, e) EXCEPT !.log = "lease-renewed",
                                                       !.logLease = lease])
     ELSE IF AcquireLoop(0)
          THEN /\ pc' = [pc EXCEPT ![c] = "all"]
               /\ arg' = [arg EXCEPT ![c] = h]
               /\ numErrs' = [numErrs EXCEPT ![c] = 0]
               /\ last' = Step(c, {"LeaseForUnderlayIP"}, e)
               /\ UNCHANGED <<made, granted>>
          ELSE AcquireReturns(c, h, lease, e, Step(c, {"LeaseForUnderlayIP"}, e))
  /\ UNCHANGED <<store, applied, uniqueSubnet, attempts, nErrors, migrated, taken,
                 cand,
                 vethVars>>

\* AcquireSubnetLease(h) whose lookup finds the lease of h
LookupFound(c, h) ==
  /\ pc[c] = "ready"
  /\ DBLeaseFor(h) # {}
  /\ AfterLookup(c, h, Ptr(CHOOSE l \in DBLeaseFor(h) : TRUE), NoErr)

\* AcquireSubnetLease(h) whose lookup finds no lease of h, with or without an error
LookupAbsent(c, h, e) ==
  /\ pc[c] = "ready"
  /\ DBLeaseFor(h) = {}
  /\ AfterLookup(c, h, Nil, e)

\* AcquireSubnetLease(h) whose lookup fails
LookupFails(c, h) ==
  /\ pc[c] = "ready"
  /\ AfterLookup(c, h, Nil, ErrTransient)

\* tryAcquireLease has returned (nil, e): the loop of AcquireSubnetLease goes on
\* or ends
AttemptFailed(c, e, step) ==
  /\ taken' = [taken EXCEPT ![c] = {}]
  /\ cand' = [cand EXCEPT ![c] = Nil]
  /\ IF AcquireLoop(numErrs[c] + 1)
     THEN /\ pc' = [pc EXCEPT ![c] = "all"]
          /\ numErrs' = [numErrs EXCEPT ![c] = @ + 1]
          /\ made' = [made EXCEPT ![c] = step.made]
          /\ last' = step
          /\ UNCHANGED <<arg, granted>>
     ELSE AcquireReturns(c, arg[c], Nil, e, step)

\* tryAcquireLease: All succeeds
AllOK(c) ==
  /\ pc[c] = "all"
  /\ taken' = [taken EXCEPT ![c] = Taken(store)]
  /\ pc' = [pc EXCEPT ![c] = "pool"]
  /\ made' = [made EXCEPT ![c] = @ + 1]
  /\ last' = [Step(c, {"All"}, NoErr) EXCEPT !.made = made[c] + 1]
  /\ UNCHANGED <<store, applied, uniqueSubnet, attempts, nErrors, migrated, arg,
                 numErrs, cand, granted,
                 vethVars>>

\* tryAcquireLease: All fails
AllFails(c) ==
  /\ pc[c] = "all"
  /\ AttemptFailed(c, Errorf("getting all subnets", ErrTransient),
                   [Step(c, {"All"}, ErrTransient) EXCEPT !.made = made[c] + 1])
  /\ UNCHANGED <<store, applied, uniqueSubnet, attempts, nErrors, migrated,
                 vethVars>>

\* tryAcquireLease: GetAvailable, ParseCIDR, GenerateForVTEP and the lease built
Decide(c) ==
  /\ pc[c] = "pool"
  /\ IF PoolAvailable(taken[c]) = {}
     THEN AttemptFailed(c, Errorf("get available subnet", ErrExhausted),
                        [Step(c, {"GetAvailable"}, ErrExhausted)
                           EXCEPT !.made = made[c]])
     ELSE LET subnet == PoolFirst(taken[c])
              vtepIP == ParseCIDR(subnet)
              hwAddr == GenerateForVTEP(vtepIP)
          IN /\ cand' = [cand EXCEPT ![c] = Ptr(NewLease(arg[c], subnet, hwAddr))]
             /\ pc' = [pc EXCEPT ![c] = "add"]
             /\ last' = [Step(c, {"GetAvailable", "GenerateForVTEP"}, NoErr)
                          EXCEPT !.made = made[c]]
             /\ UNCHANGED <<taken, arg, numErrs, made, granted>>
  /\ UNCHANGED <<store, applied, uniqueSubnet, attempts, nErrors, migrated,
                 vethVars>>

\* tryAcquireLease: the pool returns a string that is no CIDR
ParseFails(c) ==
  /\ pc[c] = "pool"
  /\ PoolAvailable(taken[c]) # {}
  /\ AttemptFailed(c, Errorf("parse subnet", ErrBadCIDR),
                   [Step(c, {"GetAvailable", "ParseCIDR"}, ErrBadCIDR)
                      EXCEPT !.made = made[c]])
  /\ UNCHANGED <<store, applied, uniqueSubnet, attempts, nErrors, migrated,
                 vethVars>>

\* tryAcquireLease: the generator rejects the address
GenerateFails(c) ==
  /\ pc[c] = "pool"
  /\ PoolAvailable(taken[c]) # {}
  /\ AttemptFailed(c, Errorf("generate hardware address", ErrBadFamily),
                   [Step(c, {"GetAvailable", "GenerateForVTEP"}, ErrBadFamily)
                      EXCEPT !.made = made[c]])
  /\ UNCHANGED <<store, applied, uniqueSubnet, attempts, nErrors, migrated,
                 vethVars>>

\* AddEntry has returned e
AfterAddEntry(c, e) ==
  /\ IF AddEntryFailed(e)
     THEN AttemptFailed(c, Errorf("adding lease entry", e),
                        [Step(c, {"AddEntry"}, e) EXCEPT !.made = made[c]])
     ELSE /\ taken' = [taken EXCEPT ![c] = {}]
          /\ cand' = [cand EXCEPT ![c] = Nil]
          /\ AcquireReturns(c, arg[c], cand[c], NoErr,
               [Step(c, {"AddEntry"}, e) EXCEPT !.made = made[c],
                                                !.log = "lease-acquired",
                                                !.logLease = cand[c]])
  /\ UNCHANGED <<applied, uniqueSubnet, attempts, nErrors, migrated,
                 vethVars>>

\* tryAcquireLease: AddEntry inserts the lease
AddEntryOK(c) ==
  /\ pc[c] = "add"
  /\ \A l \in cand[c] : ~DBConflict(l)
  /\ store' = store \cup cand[c]
  /\ AfterAddEntry(c, NoErr)

\* tryAcquireLease: AddEntry is rejected by a uniqueness constraint
AddEntryConflict(c) ==
  /\ pc[c] = "add"
  /\ \E l \in cand[c] : DBConflict(l)
  /\ store' = store
  /\ AfterAddEntry(c, ErrDuplicate)

\* tryAcquireLease: AddEntry fails, nothing is inserted
AddEntryFails(c) ==
  /\ pc[c] = "add"
  /\ store' = store
  /\ AfterAddEntry(c, ErrTransient)

(***************************************************************************)
(* ReleaseSubnetLease and RoutableLeases.                                  *)
(***************************************************************************)
\* DeleteEntry has returned e
AfterDeleteEntry(c, e) ==
  /\ last' = IF DeleteEntryFailed(e)
             THEN [Step(c, {"DeleteEntry"}, e)
                     EXCEPT !.op = "ReleaseSubnetLease", !.arg = ReleaseKey(c),
                            !.err = Errorf("releasing lease", e)]
             ELSE [Step(c, {"DeleteEntry"}, e)
                     EXCEPT !.op = "ReleaseSubnetLease", !.arg = ReleaseKey(c),
                            !.log = "subnet-released"]
  /\ UNCHANGED <<applied, uniqueSubnet, attempts, pc, nErrors, migrated, arg, numErrs,
                 taken, cand, made,
                 vethVars>>

\* ReleaseSubnetLease: DeleteEntry deletes the row
ReleaseOK(c) ==
  /\ pc[c] = "ready"
  /\ DBLeaseFor(ReleaseKey(c)) # {}
  /\ store' = store \ DBLeaseFor(ReleaseKey(c))
  /\ granted' = [granted EXCEPT ![ReleaseKey(c)] = {}]
  /\ AfterDeleteEntry(c, NoErr)

\* ReleaseSubnetLease: DeleteEntry finds no row
ReleaseAbsent(c) ==
  /\ pc[c] = "ready"
  /\ DBLeaseFor(ReleaseKey(c)) = {}
  /\ UNCHANGED <<store, granted>>
  /\ AfterDeleteEntry(c, ErrNotFound)

\* ReleaseSubnetLease: DeleteEntry fails, nothing is deleted
ReleaseFails(c) ==
  /\ pc[c] = "ready"
  /\ UNCHANGED <<store, granted>>
  /\ AfterDeleteEntry(c, ErrTransient)

\* RoutableLeases: All succeeds
RoutableLeasesOK(c) ==
  /\ pc[c] = "ready"
  /\ last' = [Step(c, {"All"}, NoErr) EXCEPT !.op = "RoutableLeases", !.leases = store]
  /\ UNCHANGED <<store, applied, uniqueSubnet, attempts, pc, nErrors, migrated, arg,
                 numErrs, taken, cand, made, granted,
                 vethVars>>

\* RoutableLeases: All fails
RoutableLeasesFails(c) ==
  /\ pc[c] = "ready"
  /\ last' = [Step(c, {"All"}, ErrTransient)
               EXCEPT !.op = "RoutableLeases",
                      !.err = Errorf("getting all leases", ErrTransient)]
  /\ UNCHANGED <<store, applied, uniqueSubnet, attempts, pc, nErrors, migrated, arg,
                 numErrs, taken, cand, made, granted,
                 vethVars>>

(***************************************************************************)
(* The veth Manager, as the veth test suite drives it.                     *)
(***************************************************************************)
\* the namespaces that exist, by path
HostPath == "/var/run/netns/host"
ContainerPath == "/var/run/netns/container"
Namespaces == {HostPath, ContainerPath}

ContainerNames == {"eth0"}
\* the names the host side of a new pair may be given
HostNames == {"veth0", "veth1"}
ContainerIPs == {"10.255.4.5", "10.255.4.6"}
\* the IPv6 addresses the kernel may have put on a new link
V6Addrs == {"fe80::1", "fe80::2"}

\* the address of the host end of every pair
HostIP == "169.254.0.1"

\* a prefix length of 24 in place of 32
Slash24(ip) == <<ip, "/24">>
\* fmt.Sprintf("%s/32", ip)
Slash32(ip) == <<ip, "/32">>
\* netlink.ParseAddr of an "<ip>/<len>" string
ParseAddr(str) == [ip |-> str[1], mask |-> str[2]]

\* an address as the kernel lists it
Addr(ns, link, family, local, peer, scope) ==
  [ns |-> ns, link |-> link, family |-> family, ip |-> local.ip,
   mask |-> local.mask, peer |-> peer, scope |-> scope]
NoPeer == [ip |-> "", mask |-> ""]

NoVeth == [op |-> "none", err |-> NoErr, name |-> "", ip |-> ""]

\* netlink.LinkByName inside namespace ns
LinkByName(ns, name) == {l \in links : l.ns = ns /\ l.name = name}
\* netlink.AddrList(link, family) inside namespace ns
AddrList(ns, name, families) ==
  {a \in addrs : a.ns = ns /\ a.link = name /\ a.family \in families}

InitVeth ==
  /\ nsPath \in [host : {HostPath, "kiwi"}, container : {ContainerPath, "kiwi"}]
  /\ mgr = [HostNS |-> "", ContainerNS |-> ""]
  /\ links = {}
  /\ addrs = {}
  /\ pairs = {}
  /\ trail = [n \in ContainerNames |-> <<>>]
  /\ vlast = NoVeth

\* NamespaceAdapter.GetNS
GetNSFails(path) == path \notin Namespaces

\* an Init that resolves the container namespace first
VethInitContainerFirst ==
  /\ IF GetNSFails(nsPath.container)
     THEN /\ vlast' = [NoVeth EXCEPT !.op = "Init",
                                    !.err = Errorf("Getting container namespace",
                                                   <<nsPath.container>>)]
          /\ mgr' = mgr
     ELSE IF GetNSFails(nsPath.host)
          THEN /\ vlast' = [NoVeth EXCEPT !.op = "Init",
                                         !.err = Errorf("Getting host namespace",
                                                        <<nsPath.host>>)]
               /\ mgr' = [mgr EXCEPT !.ContainerNS = nsPath.container]
          ELSE /\ vlast' = [NoVeth EXCEPT !.op = "Init"]
               /\ mgr' = [HostNS |-> nsPath.host, ContainerNS |-> nsPath.container]
  /\ UNCHANGED <<nsPath, links, addrs, pairs, trail, lcVars>>
\* Manager.Init
VethInit ==
  /\ IF GetNSFails(nsPath.host)
     THEN /\ vlast' = [NoVeth EXCEPT !.op = "Init",
                                    !.err = Errorf("Getting host namespace",
                                                   <<nsPath.host>>)]
          /\ mgr' = mgr
     ELSE IF GetNSFails(nsPath.container)
          THEN /\ vlast' = [NoVeth EXCEPT !.op = "Init",
                                         !.err = Errorf("Getting container namespace",
                                                        <<nsPath.container>>)]
               /\ mgr' = [mgr EXCEPT !.HostNS = nsPath.host]
          ELSE /\ vlast' = [NoVeth EXCEPT !.op = "Init"]
               /\ mgr' = [HostNS |-> nsPath.host, ContainerNS |-> nsPath.container]
  /\ UNCHANGED <<nsPath, links, addrs, pairs, trail, lcVars>>

Initialized == mgr.HostNS # "" /\ mgr.ContainerNS # ""

\* a value of veth.Pair
Pair(hostName, name) ==
  [Host |-> [name |-> hostName, ns |-> mgr.HostNS],
   Container |-> [name |-> name, ns |-> mgr.ContainerNS]]

\* the operation op has changed the pair of container name n
Trailed(n, op) == [trail EXCEPT ![n] = IF Len(@) < MaxTrail THEN Append(@, op) ELSE @]

\* Manager.CreatePair(name, mtu): the container side name is free; the kernel puts
\* the IPv6 addresses host6 and container6 on the new ends
CreatePair(name, hostName, host6, container6) ==
  /\ Initialized
  /\ LinkByName(mgr.ContainerNS, name) = {}
  /\ LinkByName(mgr.HostNS, hostName) = {}
  /\ (mgr.HostNS = mgr.ContainerNS) => hostName # name
  /\ links' = links \cup
       {[ns |-> mgr.HostNS, name |-> hostName, peerNS |-> mgr.ContainerNS,
         peer |-> name],
        [ns |-> mgr.ContainerNS, name |-> name, peerNS |-> mgr.HostNS,
         peer |-> hostName]}
  /\ addrs' = addrs
       \cup {Addr(mgr.HostNS, hostName, 6, [ip |-> a, mask |-> "/64"], NoPeer, "link")
               : a \in host6}
       \cup {Addr(mgr.ContainerNS, name, 6, [ip |-> a, mask |-> "/64"], NoPeer, "link")
               : a \in container6}
  /\ pairs' = pairs \cup {Pair(hostName, name)}
  /\ trail' = [trail EXCEPT ![name] = <<"CreatePair">>]
  /\ vlast' = [NoVeth EXCEPT !.op = "CreatePair", !.name = name]
  /\ UNCHANGED <<nsPath, mgr, lcVars>>

\* a CreatePair that reports the collision after it has removed the link in its way
CreatePairReplaces(name) ==
  /\ Initialized
  /\ LinkByName(mgr.ContainerNS, name) # {}
  /\ links' = links \ LinkByName(mgr.ContainerNS, name)
  /\ vlast' = [NoVeth EXCEPT !.op = "CreatePair", !.name = name,
                             !.err = <<"container veth name provided", name,
                                       "already exists">>]
  /\ UNCHANGED <<nsPath, mgr, addrs, pairs, trail, lcVars>>
\* Manager.CreatePair(name, mtu): the container side name is taken
CreatePairExists(name) ==
  /\ Initialized
  /\ LinkByName(mgr.ContainerNS, name) # {}
  /\ vlast' = [NoVeth EXCEPT !.op = "CreatePair", !.name = name,
                             !.err = <<"container veth name provided", name,
                                       "already exists">>]
  /\ UNCHANGED <<nsPath, mgr, links, addrs, pairs, trail, lcVars>>

\* the ends of pair p that still exist
Ends(p) == LinkByName(p.Host.ns, p.Host.name) \cup
           LinkByName(p.Container.ns, p.Container.name)

\* a DisableIPv6 that clears the host end only
DisableIPv6HostOnly(p) ==
  /\ Initialized
  /\ Cardinality(Ends(p)) = 2
  /\ addrs' = addrs \ AddrList(p.Host.ns, p.Host.name, {6})
  /\ trail' = Trailed(p.Container.name, "DisableIPv6")
  /\ vlast' = [NoVeth EXCEPT !.op = "DisableIPv6", !.name = p.Container.name]
  /\ UNCHANGED <<nsPath, mgr, links, pairs, lcVars>>
\* Manager.DisableIPv6(pair)
DisableIPv6(p) ==
  /\ Initialized
  /\ Cardinality(Ends(p)) = 2
  /\ addrs' = addrs \ (AddrList(p.Host.ns, p.Host.name, {6}) \cup
                       AddrList(p.Container.ns, p.Container.name, {6}))
  /\ trail' = Trailed(p.Container.name, "DisableIPv6")
  /\ vlast' = [NoVeth EXCEPT !.op = "DisableIPv6", !.name = p.Container.name]
  /\ UNCHANGED <<nsPath, mgr, links, pairs, lcVars>>

\* the point to point address of one end: local/32 with peer remote/32, link scope
PointToPoint(end, local, remote) ==
  Addr(end.ns, end.name, 4, ParseAddr(Slash32(local)), ParseAddr(Slash32(remote)),
       "link")

\* Manager.AssignIP(pair, containerIP): both ends exist and take their address
AssignIP(p, containerIP) ==
  /\ Initialized
  /\ Cardinality(Ends(p)) = 2
  /\ PointToPoint(p.Host, HostIP, containerIP) \notin addrs
  /\ PointToPoint(p.Container, containerIP, HostIP) \notin addrs
  /\ addrs' = addrs \cup {PointToPoint(p.Host, HostIP, containerIP),
                         PointToPoint(p.Container, containerIP, HostIP)}
  /\ trail' = Trailed(p.Container.name, "AssignIP")
  /\ vlast' = [NoVeth EXCEPT !.op = "AssignIP", !.name = p.Container.name,
                             !.ip = containerIP]
  /\ UNCHANGED <<nsPath, mgr, links, pairs, lcVars>>

\* Manager.AssignIP(pair, containerIP): the host side is assigned and the
\* container side fails (its address cannot be parsed or added)
AssignIPContainerFails(p, containerIP) ==
  /\ Initialized
  /\ Cardinality(Ends(p)) = 2
  /\ PointToPoint(p.Host, HostIP, containerIP) \notin addrs
  /\ addrs' = addrs \cup {PointToPoint(p.Host, HostIP, containerIP)}
  /\ vlast' = [NoVeth EXCEPT !.op = "AssignIP", !.name = p.Container.name,
                             !.ip = containerIP,
                             !.err = <<"adding address", Slash32(containerIP)[1]>>]
  /\ trail' = Trailed(p.Container.name, "AssignIP host side only")
  /\ UNCHANGED <<nsPath, mgr, links, pairs, lcVars>>

\* Manager.AssignIP(pair, containerIP): the host side fails, nothing is assigned
AssignIPHostFails(p, containerIP) ==
  /\ Initialized
  /\ vlast' = [NoVeth EXCEPT !.op = "AssignIP", !.name = p.Container.name,
                             !.ip = containerIP,
                             !.err = IF LinkByName(p.Host.ns, p.Host.name) = {}
                                     THEN <<"find link by name", p.Host.name>>
                                     ELSE <<"adding address", Slash32(HostIP)[1]>>]
  /\ UNCHANGED <<nsPath, mgr, links, addrs, pairs, trail, lcVars>>

\* a Destroy that removes the named link and leaves its peer
DestroyOneEnd(ns, linkName) ==
  /\ Initialized
  /\ LinkByName(ns, linkName) # {}
  /\ links' = links \ LinkByName(ns, linkName)
  /\ addrs' = {a \in addrs : ~(a.ns = ns /\ a.link = linkName)}
  /\ vlast' = [NoVeth EXCEPT !.op = "Destroy", !.name = linkName]
  /\ UNCHANGED <<nsPath, mgr, pairs, trail, lcVars>>
\* Manager.Destroy(linkName): the link is found, it and its peer are removed
Destroy(ns, linkName) ==
  /\ Initialized
  /\ LinkByName(ns, linkName) # {}
  /\ LET gone == LinkByName(ns, linkName) \cup
                 {l \in links : l.peerNS = ns /\ l.peer = linkName}
     IN /\ links' = links \ gone
        /\ addrs' = {a \in addrs : \A l \in gone : ~(a.ns = l.ns /\ a.link = l.name)}
  /\ vlast' = [NoVeth EXCEPT !.op = "Destroy", !.name = linkName]
  /\ UNCHANGED <<nsPath, mgr, pairs, trail, lcVars>>

\* Manager.Destroy(linkName): no link of that name
DestroyNotFound(linkName) ==
  /\ Initialized
  /\ \A ns \in {mgr.HostNS, mgr.ContainerNS} : LinkByName(ns, linkName) = {}
  /\ vlast' = [NoVeth EXCEPT !.op = "Destroy", !.name = linkName,
                             !.err = <<"Link not found">>]
  /\ UNCHANGED <<nsPath, mgr, links, addrs, pairs, trail, lcVars>>

NextVeth ==
  \/ VethInit
  \/ \E n \in ContainerNames, hn \in HostNames, h6 \in SUBSET V6Addrs,
        c6 \in SUBSET V6Addrs : CreatePair(n, hn, h6, c6)
  \/ \E n \in ContainerNames : CreatePairExists(n)
  \/ \E p \in pairs : DisableIPv6(p)
  \/ \E p \in pairs, ip \in ContainerIPs : AssignIP(p, ip)
  \/ \E p \in pairs, ip \in ContainerIPs : AssignIPContainerFails(p, ip)
  \/ \E p \in pairs, ip \in ContainerIPs : AssignIPHostFails(p, ip)
  \/ \E ns \in {mgr.HostNS, mgr.ContainerNS}, n \in ContainerNames \cup HostNames :
        Destroy(ns, n)
  \/ \E n \in ContainerNames \cup HostNames \cup {"wrong-name"} : DestroyNotFound(n)

(***************************************************************************)
(* The daemons sharing one store.                                          *)
(***************************************************************************)
Next ==
  \E c \in Controllers :
    \/ NewLeaseController(c)
    \/ ConnectFails(c)
    \/ MigrateOK(c)
    \/ \E e \in {ErrTransient, ErrLocked} : MigrateFails(c, e)
    \/ \E h \in Hosts : LookupFound(c, h)
    \/ \E h \in Hosts : \E e \in {NoErr, ErrNoRows} : LookupAbsent(c, h, e)
    \/ \E h \in Hosts : LookupFails(c, h)
    \/ AllOK(c)
    \/ AllFails(c)
    \/ Decide(c)
    \/ ParseFails(c)
    \/ GenerateFails(c)
    \/ AddEntryOK(c)
    \/ AddEntryConflict(c)
    \/ AddEntryFails(c)
    \/ ReleaseOK(c)
    \/ ReleaseAbsent(c)
    \/ ReleaseFails(c)
    \/ RoutableLeasesOK(c)
    \/ RoutableLeasesFails(c)

\* the store of the external interface: insert rejects a duplicate host
\* identifier and a duplicate subnet
Init == InitLC /\ uniqueSubnet = TRUE /\ InitVeth /\ nsPath = [host |-> HostPath, container |-> ContainerPath]

Spec == Init /\ [][Next]_vars

\* a store whose insert rejects a duplicate host identifier only
InitHostKey == InitLC /\ uniqueSubnet = FALSE /\ InitVeth /\ nsPath = [host |-> HostPath, container |-> ContainerPath]

SpecHostKey == InitHostKey /\ [][Next]_vars

\* one veth Manager and the kernel's links, beside an idle store
InitManager == InitLC /\ uniqueSubnet = TRUE /\ attempts = 1 /\ InitVeth

SpecVeth == InitManager /\ [][NextVeth]_vars

(***************************************************************************)
(* Properties.                                                             *)
(***************************************************************************)
SubnetsOf(ls) == {l.OverlaySubnet : l \in ls}
\* no two leases of ls have the same subnet (equal-length subnets overlap
\* exactly when they are equal)
PairwiseDisjoint(ls) == \A l1, l2 \in ls : l1 # l2 => l1.OverlaySubnet # l2.OverlaySubnet
InFlight(c) == pc[c] \in {"all", "pool", "add"}
LeaseCalls == {"LeaseForUnderlayIP", "All", "GetAvailable", "ParseCIDR",
               "GenerateForVTEP", "AddEntry", "DeleteEntry"}

\* C1: against a store whose insert rejects a duplicate host identifier and a
\* duplicate subnet, no two leases in the store have the same subnet, and no two
\* hosts whose acquisition returned success hold the same subnet, however the
\* hosts' store calls interleave.
C1_SubnetUniqueness ==
  /\ PairwiseDisjoint(store)
  /\ \A h1, h2 \in Hosts : h1 # h2 => granted[h1] \cap granted[h2] = {}

\* a host lost the race for a subnet: its insert was rejected although it has no
\* lease, and it goes on to its next attempt beside another host's lease
C1_Witness ==
  /\ last.call = {"AddEntry"}
  /\ last.callErr = ErrDuplicate
  /\ pc[last.c] = "all"
  /\ DBLeaseFor(arg[last.c]) = {}
  /\ store # {}

\* C2 as stated: against a store whose insert rejects a duplicate host identifier
\* only, the subnets of the leases in the store are pairwise non-overlapping.
C2_AsStated == PairwiseDisjoint(store)

\* C2 as amended: against a store whose insert rejects a duplicate host identifier
\* only, an attempt takes as taken exactly the subnets in the store when it reads
\* it, and the subnet it inserts is none of them, so an insert made while the
\* store still holds exactly the subnets the host read keeps the subnets
\* pairwise non-overlapping.
C2_InsertKeepsDisjoint ==
  /\ [][\A c \in Controllers :
       (/\ pc[c] = "add"
        /\ last'.c = c
        /\ store' # store
        /\ PairwiseDisjoint(store)
        /\ taken[c] = SubnetsOf(store))
       => /\ PairwiseDisjoint(store')
          /\ SubnetsOf(store') \cap taken[c] = SubnetsOf(store)
     ]_vars
  /\ [][\A c \in Controllers :
          (pc[c] = "all" /\ last'.c = c /\ last'.callErr = NoErr)
          => taken'[c] = SubnetsOf(store)
       ]_vars

\* a host has inserted a second lease, with its own subnet, while another host's
\* acquisition is under way
C2_Witness ==
  /\ last.op = "AcquireSubnetLease"
  /\ last.call = {"AddEntry"}
  /\ last.err = NoErr
  /\ Cardinality(store) >= 2
  /\ PairwiseDisjoint(store)
  /\ \E d \in Controllers \ {last.c} : InFlight(d)

\* C3: the store never holds two leases of one host identifier, and no host is
\* ever handed a second subnet while it holds one, whatever the controllers do
\* (two of them may acquire for the same host at the same time).
C3_OneLeasePerHost ==
  \A h \in Hosts : /\ Cardinality(DBLeaseFor(h)) <= 1
                   /\ Cardinality(granted[h]) <= 1
                   /\ granted[h] = SubnetsOf(DBLeaseFor(h))

\* an insert for a host was rejected because the host has a lease already
C3_Witness ==
  /\ last.call = {"AddEntry"}
  /\ last.callErr = ErrDuplicate
  /\ \E c \in Controllers : /\ last.c = c
                            /\ last.op = "AcquireSubnetLease"
                            /\ DBLeaseFor(last.arg) # {}

\* C4: an AcquireSubnetLease whose lookup returns the lease of the host returns
\* exactly that lease and no error in the same step, having called
\* LeaseForUnderlayIP only, and leaves the store as it was; called again at once,
\* it returns the same lease.
C4_RenewalIdempotent ==
  /\ [](last.log = "lease-renewed"
          => /\ last.op = "AcquireSubnetLease"
             /\ last.err = NoErr
             /\ last.lease # Nil
             /\ last.lease = DBLeaseFor(last.arg)
             /\ last.call = {"LeaseForUnderlayIP"}
             /\ last.made = 0)
  /\ [][\A c \in Controllers, h \in Hosts :
          (/\ pc[c] = "ready"
           /\ DBLeaseFor(h) # {}
           /\ last'.c = c
           /\ last'.call = {"LeaseForUnderlayIP"}
           /\ last'.callErr = NoErr
           /\ (last'.arg = h \/ arg'[c] = h))
          => /\ last'.op = "AcquireSubnetLease"
             /\ last'.err = NoErr
             /\ last'.lease = DBLeaseFor(h)
             /\ store' = store
             /\ pc'[c] = "ready"
             /\ (last.op = "AcquireSubnetLease" /\ last.err = NoErr /\ last.c = c
                   /\ last.arg = h => last'.lease = last.lease)
       ]_vars

\* a renewal that comes right after another acquisition for the same host, by
\* the same controller, returned
C4_Witness ==
  /\ last.log = "lease-renewed"
  /\ last.op = "AcquireSubnetLease"
  /\ last.lease # Nil
  /\ granted[last.arg] = SubnetsOf(last.lease)

\* C5: when every subnet of the range is taken, an attempt of AcquireSubnetLease
\* inserts nothing and fails on the pool's report; the call that ends so has made
\* exactly AcquireSubnetLeaseAttempts attempts and returns no lease and an error
\* carrying the pool's "no subnets available".
C5_PoolExhaustion ==
  /\ [](last.op = "AcquireSubnetLease" /\ last.callErr = ErrExhausted
          => /\ last.lease = Nil
             /\ last.err = Errorf("get available subnet", ErrExhausted)
             /\ last.made = attempts)
  /\ [][\A c \in Controllers :
          (pc[c] = "pool" /\ Subnets \subseteq taken[c] /\ last'.c = c)
          => /\ store' = store
             /\ last'.call = {"GetAvailable"}
             /\ last'.callErr = ErrExhausted
             /\ pc'[c] # "add"
             /\ \/ pc'[c] = "all" /\ numErrs'[c] = numErrs[c] + 1
                                 /\ numErrs'[c] < attempts
                \/ last'.op = "AcquireSubnetLease" /\ numErrs[c] + 1 = attempts
       ]_vars

\* the range's K subnets are leased to other hosts and the acquisition for one
\* more host has returned the pool's error
C5_Witness ==
  /\ last.op = "AcquireSubnetLease"
  /\ last.err = Errorf("get available subnet", ErrExhausted)
  /\ last.made = attempts
  /\ DBLeaseFor(last.arg) = {}
  /\ Cardinality(store) = NumSubnets
  /\ SubnetsOf(store) = Subnets

\* C6: TryMigrations returns at the first Migrate that succeeds, after one call
\* more than the failures before it (fewer than MaxMigrationAttempts), logging
\* the count that Migrate returned; when MaxMigrationAttempts calls have failed it
\* returns an error naming the last failure; after a success it never calls
\* Migrate again.
C6_MigrationRetry ==
  /\ [](last.op = "NewLeaseController" /\ last.call = {"Migrate"}
          => IF last.callErr = NoErr
             THEN /\ last.err = NoErr
                  /\ last.made <= MaxMigrationAttempts
                  /\ last.log = "db-migration-complete"
                  /\ last.logN = last.n
                  /\ pc[last.c] = "ready"
             ELSE /\ last.made = MaxMigrationAttempts
                  /\ last.err = <<"migrating database", "creating table">> \o last.callErr
                  /\ pc[last.c] = "failed")
  /\ [][\A c \in Controllers :
          /\ (pc[c] = "migrate" /\ last'.c = c)
             => /\ last'.call = {"Migrate"}
                /\ made[c] = nErrors[c]
                /\ nErrors[c] < MaxMigrationAttempts
                /\ IF last'.callErr = NoErr
                   THEN /\ last'.op = "NewLeaseController"
                        /\ last'.made = nErrors[c] + 1
                        /\ last'.n = Cardinality(Migrations \ applied)
                   ELSE IF nErrors[c] + 1 < MaxMigrationAttempts
                        THEN /\ last'.op = "none"
                             /\ pc'[c] = "migrate"
                             /\ nErrors'[c] = nErrors[c] + 1
                             /\ made'[c] = made[c] + 1
                        ELSE /\ last'.op = "NewLeaseController"
                             /\ last'.made = MaxMigrationAttempts
          /\ (migrated[c] /\ last'.c = c) => "Migrate" \notin last'.call
       ]_vars

\* Migrate has failed twice and then succeeded, while another daemon's
\* migration has failed for good
C6_Witness ==
  /\ last.op = "NewLeaseController"
  /\ last.call = {"Migrate"}
  /\ last.err = NoErr
  /\ last.made = 3
  /\ \E d \in Controllers : pc[d] = "failed" /\ ~migrated[d]

\* C7: ReleaseSubnetLease called while the store holds no lease of the
\* controller's host makes its one DeleteEntry call, returns an error (the
\* store's not-found, wrapped) and leaves the store as it was; a release that
\* follows the acquisition for the controller's own host, if its DeleteEntry
\* succeeds, removes that lease, and a release that follows a successful release
\* at once fails.
C7_ReleaseAbsent ==
  [][\A c \in Controllers :
       (/\ pc[c] = "ready"
        /\ last'.c = c
        /\ last'.op = "ReleaseSubnetLease")
       => /\ last'.call = {"DeleteEntry"}
          /\ last'.arg = UnderlayIP(c)
          /\ pc'[c] = "ready"
          /\ (DBLeaseFor(UnderlayIP(c)) = {}
                => /\ last'.err # NoErr
                   /\ store' = store
                   /\ (last'.callErr = ErrNotFound
                         => last'.err = Errorf("releasing lease", ErrNotFound)))
          /\ (last.op = "ReleaseSubnetLease" /\ last.c = c /\ last.err = NoErr
                => last'.err # NoErr)
          /\ (/\ last.op = "AcquireSubnetLease" /\ last.c = c /\ last.err = NoErr
              /\ last.arg = UnderlayIP(c)
              /\ last'.callErr = NoErr)
                => /\ last'.err = NoErr
                   /\ store' = store \ last.lease
                   /\ DBLeaseFor(UnderlayIP(c))' = {}
     ]_vars

\* a release has failed for want of a lease, leaving another host's lease alone
C7_Witness ==
  /\ last.op = "ReleaseSubnetLease"
  /\ last.callErr = ErrNotFound
  /\ last.err = Errorf("releasing lease", ErrNotFound)
  /\ store # {}

\* the contexts tryAcquireLease wraps its errors in
AttemptContexts == {"getting all subnets", "get available subnet", "parse subnet",
                    "generate hardware address", "adding lease entry"}

\* C8: an AcquireSubnetLease for a host without a lease never starts more than
\* AcquireSubnetLeaseAttempts attempts; each attempt starts with All and takes
\* its taken set from that reading alone; a failed step of an attempt (All, the
\* pool, the subnet parse, the hardware address, the insert) adds exactly one to
\* the failure count and either starts the next attempt or, at the bound, returns
\* that step's error wrapped; a successful insert returns the inserted lease at
\* once.
C8_BoundedRetry ==
  /\ [](\A c \in Controllers :
          /\ InFlight(c)
               => /\ numErrs[c] < attempts
                  /\ made[c] <= attempts
                  /\ made[c] = IF pc[c] = "all" THEN numErrs[c] ELSE numErrs[c] + 1
          /\ pc[c] = "all" => taken[c] = {} /\ cand[c] = Nil)
  /\ [](last.op = "AcquireSubnetLease" => last.made <= attempts)
  /\ [][\A c \in Controllers :
          /\ (pc[c] = "all" /\ last'.c = c)
               => /\ last'.call = {"All"}
                  /\ last'.made = made[c] + 1
                  /\ (last'.callErr = NoErr
                        => pc'[c] = "pool" /\ taken'[c] = SubnetsOf(store))
          /\ (InFlight(c) /\ last'.c = c /\ last'.callErr # NoErr)
               => /\ store' = store
                  /\ IF numErrs[c] + 1 < attempts
                     THEN /\ last'.op = "none"
                          /\ pc'[c] = "all"
                          /\ numErrs'[c] = numErrs[c] + 1
                          /\ arg'[c] = arg[c]
                     ELSE /\ last'.op = "AcquireSubnetLease"
                          /\ last'.arg = arg[c]
                          /\ last'.lease = Nil
                          /\ last'.made = attempts
                          /\ \E context \in AttemptContexts :
                               last'.err = Errorf(context, last'.callErr)
                          /\ pc'[c] = "ready"
          /\ (pc[c] = "add" /\ last'.c = c /\ last'.callErr = NoErr)
               => /\ last'.op = "AcquireSubnetLease"
                  /\ last'.err = NoErr
                  /\ last'.lease = cand[c]
                  /\ store' = store \cup cand[c]
                  /\ pc'[c] = "ready"
       ]_vars

\* an acquisition has used up its attempts, the last of them on a conflicting
\* insert, and returned that conflict
C8_Witness ==
  /\ last.op = "AcquireSubnetLease"
  /\ last.call = {"AddEntry"}
  /\ last.err = Errorf("adding lease entry", ErrDuplicate)
  /\ attempts = MaxAcquireAttempts
  /\ last.made = attempts
  /\ DBLeaseFor(last.arg) = {}

\* C9: a controller that makes a lease call on the store, or returns from a lease
\* operation, has had a Migrate call of its own succeed; a NewLeaseController
\* that returns an error returns no controller, and a daemon without a
\* controller makes no further call.
C9_MigrationFirst ==
  /\ [](/\ last.call \cap LeaseCalls # {} => migrated[last.c]
        /\ last.op \in {"AcquireSubnetLease", "ReleaseSubnetLease", "RoutableLeases"}
             => migrated[last.c]
        /\ \A c \in Controllers : pc[c] \in {"ready", "all", "pool", "add"}
                                    => migrated[c] /\ applied = Migrations
        /\ last.op = "NewLeaseController" /\ last.err # NoErr
             => pc[last.c] = "failed" /\ ~migrated[last.c])
  /\ [][\A c \in Controllers :
          pc[c] = "failed" => pc'[c] = "failed" /\ last'.c # c /\ ~migrated'[c]
       ]_vars

\* one daemon's migration has failed MaxMigrationAttempts times and it got no
\* controller, while another daemon holds a lease
C9_Witness ==
  /\ last.op = "NewLeaseController"
  /\ last.call = {"Migrate"}
  /\ last.made = MaxMigrationAttempts
  /\ last.err # NoErr
  /\ pc[last.c] = "failed"
  /\ \E d \in Controllers : pc[d] = "ready" /\ DBLeaseFor(UnderlayIP(d)) # {}

\* the addresses of every family on one end of a pair
EndAddrs(end) == AddrList(end.ns, end.name, {4, 6})
\* what the test reads of an address: IPNet.String(), Peer.String(), Scope
Shown(a) == [IPNet |-> <<a.ip, a.mask>>, Peer |-> <<a.peer.ip, a.peer.mask>>,
             Scope |-> a.scope]

\* C10: when AssignIP(pair, containerIP) has succeeded on a pair that Init,
\* CreatePair and DisableIPv6 prepared, the host end has exactly one address,
\* 169.254.0.1/32 with peer containerIP/32 at link scope, and the container end
\* has exactly one address, containerIP/32 with peer 169.254.0.1/32 at link scope.
C10_PointToPoint ==
  (/\ vlast.op = "AssignIP"
   /\ vlast.err = NoErr
   /\ trail[vlast.name] = <<"CreatePair", "DisableIPv6", "AssignIP">>)
  => \E p \in pairs :
       /\ p.Container.name = vlast.name
       /\ Cardinality(Ends(p)) = 2
       /\ Cardinality(EndAddrs(p.Host)) = 1
       /\ Cardinality(EndAddrs(p.Container)) = 1
       /\ \A a \in EndAddrs(p.Host) :
            Shown(a) = [IPNet |-> <<"169.254.0.1", "/32">>,
                        Peer |-> <<vlast.ip, "/32">>, Scope |-> "link"]
       /\ \A a \in EndAddrs(p.Container) :
            Shown(a) = [IPNet |-> <<vlast.ip, "/32">>,
                        Peer |-> <<"169.254.0.1", "/32">>, Scope |-> "link"]

\* the second container IP has been assigned to a prepared pair
C10_Witness ==
  /\ vlast.op = "AssignIP"
  /\ vlast.err = NoErr
  /\ vlast.ip = "10.255.4.6"
  /\ trail[vlast.name] = <<"CreatePair", "DisableIPv6", "AssignIP">>
  /\ \E a \in addrs : a.family = 4 /\ a.link = vlast.name /\ a.ip = vlast.ip

\* C11: CreatePair(name, mtu) called while a link called name exists in the
\* container namespace returns an error naming the interface and saying that it
\* already exists, and leaves the links of both namespaces as they were; a
\* CreatePair that succeeds found the name free and added the two ends.
C11_NameCollision ==
  [][vlast'.op = "CreatePair"
       => IF LinkByName(mgr.ContainerNS, vlast'.name) # {}
          THEN /\ vlast'.err = <<"container veth name provided", vlast'.name,
                                 "already exists">>
               /\ links' = links
               /\ \A ns \in {mgr.HostNS, mgr.ContainerNS} :
                    {l \in links' : l.ns = ns} = {l \in links : l.ns = ns}
               /\ addrs' = addrs
          ELSE /\ vlast'.err = NoErr
               /\ Cardinality(links') = Cardinality(links) + 2
               /\ Cardinality({l \in links' : l.ns = mgr.ContainerNS /\ l.name = vlast'.name}) = 1
    ]_vars

\* a second CreatePair("eth0") has failed on the name, beside the first pair
C11_Witness ==
  /\ vlast.op = "CreatePair"
  /\ vlast.name = "eth0"
  /\ vlast.err = <<"container veth name provided", "eth0", "already exists">>
  /\ Cardinality(links) = 2
  /\ LinkByName(mgr.ContainerNS, "eth0") # {}

\* the pairs of container-side name n whose two ends exist
LivePairs(n) == {p \in pairs : p.Container.name = n /\ Cardinality(Ends(p)) = 2}
\* the addresses of family f
OfFamily(as, f) == {a \in as : a.family = f}

\* C12: a successful DisableIPv6(pair) leaves no IPv6 address on either end of
\* the pair, however many there were (none, one or several on each end); it
\* removes no IPv4 address and no link; with no IPv6 address present it succeeds
\* and changes nothing, so a second DisableIPv6 in a row changes nothing.
C12_IPv6Suppression ==
  [][vlast'.op = "DisableIPv6"
       => /\ vlast'.err = NoErr
          /\ LivePairs(vlast'.name) # {}
          /\ \A p \in LivePairs(vlast'.name) :
               /\ OfFamily({a \in addrs' : a.ns = p.Host.ns /\ a.link = p.Host.name},
                           6) = {}
               /\ OfFamily({a \in addrs' : a.ns = p.Container.ns
                                            /\ a.link = p.Container.name}, 6) = {}
               /\ (OfFamily(EndAddrs(p.Host) \cup EndAddrs(p.Container), 6) = {}
                     => addrs' = addrs)
          /\ OfFamily(addrs', 4) = OfFamily(addrs, 4)
          /\ addrs' \subseteq addrs
          /\ links' = links
          /\ (vlast.op = "DisableIPv6" /\ vlast.name = vlast'.name => addrs' = addrs)
    ]_vars

\* DisableIPv6 has run twice in a row on a pair that has its IPv4 addresses
C12_Witness ==
  /\ vlast.op = "DisableIPv6"
  /\ vlast.err = NoErr
  /\ trail[vlast.name] = <<"CreatePair", "AssignIP", "DisableIPv6", "DisableIPv6">>
  /\ \A p \in LivePairs(vlast.name) :
       /\ OfFamily(EndAddrs(p.Host), 4) # {}
       /\ OfFamily(EndAddrs(p.Container), 4) # {}
       /\ OfFamily(EndAddrs(p.Host) \cup EndAddrs(p.Container), 6) = {}
  /\ LivePairs(vlast.name) # {}

\* the links called name in the Manager's two namespaces
Named(name) == LinkByName(mgr.HostNS, name) \cup LinkByName(mgr.ContainerNS, name)
\* the other end of link l
PeerOf(l) == LinkByName(l.peerNS, l.peer)

\* C13: Destroy(linkName) with the name of an existing end of a pair succeeds,
\* and afterwards neither that link nor its peer exists, every other link being
\* left alone; Destroy of a name that no link has returns "Link not found" and
\* removes nothing.
C13_Destroy ==
  [][vlast'.op = "Destroy"
       => IF Named(vlast'.name) # {}
          THEN /\ vlast'.err = NoErr
               /\ links' = links \ UNION {{l} \cup PeerOf(l) : l \in Named(vlast'.name)}
               /\ \A l \in Named(vlast'.name) :
                    /\ PeerOf(l) # {}
                    /\ \A k \in links' : /\ ~(k.ns = l.ns /\ k.name = l.name)
                                         /\ ~(k.ns = l.peerNS /\ k.name = l.peer)
                    /\ \A a \in addrs' : /\ ~(a.ns = l.ns /\ a.link = l.name)
                                         /\ ~(a.ns = l.peerNS /\ a.link = l.peer)
          ELSE /\ vlast'.err = <<"Link not found">>
               /\ links' = links
               /\ addrs' = addrs
    ]_vars

\* the pair has been destroyed by the name of its host end
C13_Witness ==
  /\ vlast.op = "Destroy"
  /\ vlast.err = NoErr
  /\ vlast.name \in HostNames
  /\ trail["eth0"] # <<>>
  /\ LinkByName(mgr.ContainerNS, "eth0") = {}
  /\ links = {}

\* C14: Init resolves the host namespace first: when that fails it returns
\* "Getting host namespace: <cause>", also when the container namespace could
\* not be resolved either, and holds no handle; when only the container
\* namespace fails it returns "Getting container namespace: <cause>"; when both
\* resolve it returns no error and the Manager's handles have the configured
\* paths.
C14_InitNamesSide ==
  vlast.op = "Init"
    => IF nsPath.host \notin Namespaces
       THEN /\ vlast.err = <<"Getting host namespace", nsPath.host>>
            /\ mgr.HostNS = ""
            /\ mgr.ContainerNS = ""
       ELSE IF nsPath.container \notin Namespaces
            THEN /\ vlast.err = <<"Getting container namespace", nsPath.container>>
                 /\ mgr.ContainerNS = ""
            ELSE /\ vlast.err = NoErr
                 /\ mgr.HostNS = nsPath.host
                 /\ mgr.ContainerNS = nsPath.container

\* Init has failed on the host side with neither path resolvable
C14_Witness ==
  /\ vlast.op = "Init"
  /\ nsPath.host \notin Namespaces
  /\ nsPath.container \notin Namespaces
  /\ vlast.err = <<"Getting host namespace", "kiwi">>

\* C15 as stated: when AcquireSubnetLease(h) has succeeded on a controller and
\* ReleaseSubnetLease then succeeds on the same controller, the store holds no
\* lease of h afterwards and the lease of every other host is as it was.
C15_ReleaseRemovesAcquired ==
  [][\A c \in Controllers :
       (/\ last.op = "AcquireSubnetLease" /\ last.c = c /\ last.err = NoErr
        /\ last'.op = "ReleaseSubnetLease" /\ last'.c = c /\ last'.err = NoErr)
       => /\ {l \in store' : l.UnderlayIP = last.arg} = {}
          /\ \A h \in Hosts \ {last.arg} :
               {l \in store' : l.UnderlayIP = h} = DBLeaseFor(h)
     ]_vars

\* C16: the only step of an AcquireSubnetLease call that changes the store is a
\* successful insert, which adds the returned lease of the requested host and
\* ends the call with no error; so a call that returns an error has inserted,
\* deleted and altered nothing, whichever step failed on whichever attempt.
\* Every lease in the store has its host identifier, its subnet and the hardware
\* address of that subnet.
C16_NoPartialWrite ==
  /\ [](\A l \in store :
          /\ l.UnderlayIP \in Hosts
          /\ l.OverlaySubnet \in Subnets
          /\ l.OverlayHardwareAddr = GenerateForVTEP(ParseCIDR(l.OverlaySubnet))
          /\ Len(l.OverlayHardwareAddr) = 6)
  /\ [][\A c \in Controllers :
          (/\ last'.c = c
           /\ \/ InFlight(c)
              \/ last'.op = "AcquireSubnetLease"
              \/ "LeaseForUnderlayIP" \in last'.call)
          => /\ store' # store
                  => /\ last'.op = "AcquireSubnetLease"
                     /\ last'.err = NoErr
                     /\ last'.call = {"AddEntry"}
                     /\ store' = store \cup last'.lease
                     /\ \A l \in last'.lease : l.UnderlayIP = last'.arg
             /\ (last'.op = "AcquireSubnetLease" /\ last'.err # NoErr)
                  => store' = store /\ granted' = granted
       ]_vars

\* an acquisition has failed on the insert of its last attempt, after an
\* earlier attempt failed too, beside another host's lease
C16_Witness ==
  /\ last.op = "AcquireSubnetLease"
  /\ last.call = {"AddEntry"}
  /\ last.err = Errorf("adding lease entry", ErrTransient)
  /\ last.made = 2
  /\ DBLeaseFor(last.arg) = {}
  /\ store # {}

\* C17 as stated: when the DeleteEntry of ReleaseSubnetLease, the All of
\* RoutableLeases or the LeaseForUnderlayIP of AcquireSubnetLease returns an
\* error, the operation returns there and then, with an error that carries the
\* store's error, and reports no success.
C17_StoreErrorReturned ==
  [][\A c \in Controllers :
       (/\ last'.c = c
        /\ last'.callErr # NoErr
        /\ \/ last'.call = {"DeleteEntry"}
           \/ last'.call = {"LeaseForUnderlayIP"}
           \/ last'.call = {"All"} /\ pc[c] = "ready")
       => /\ last'.op \in {"ReleaseSubnetLease", "RoutableLeases", "AcquireSubnetLease"}
          /\ last'.err # NoErr
          /\ \E context \in {"releasing lease", "getting all leases",
                             "getting lease for underlay ip"} :
               last'.err = Errorf(context, last'.callErr)
          /\ last'.lease = Nil
          /\ pc'[c] = "ready"
     ]_vars

\* C18: a host's lease stays in the store, with its subnet, until a
\* ReleaseSubnetLease for that host succeeds; no lease is inserted for a host
\* that has one; and every AcquireSubnetLease(h) that returns success returns
\* the lease the store holds for h, which is the one it held before the call's
\* last step if it held one then. This holds too when the lookup failed or
\* reported the lease absent: the call may fail, it returns no other subnet.
C18_LeaseStability ==
  /\ [](last.op = "AcquireSubnetLease" /\ last.err = NoErr
          => /\ last.lease # Nil
             /\ last.lease = DBLeaseFor(last.arg)
             /\ SubnetsOf(last.lease) = granted[last.arg])
  /\ [][\A h \in Hosts :
          /\ (DBLeaseFor(h) # {}
              /\ ~(last'.op = "ReleaseSubnetLease" /\ last'.err = NoErr
                     /\ last'.arg = h))
               => /\ {l \in store' : l.UnderlayIP = h} = DBLeaseFor(h)
                  /\ granted'[h] = granted[h]
                  /\ (last'.op = "AcquireSubnetLease" /\ last'.arg = h
                        /\ last'.err = NoErr)
                       => last'.lease = DBLeaseFor(h)
          /\ (DBLeaseFor(h) = {} /\ last'.op = "AcquireSubnetLease" /\ last'.arg = h
                /\ last'.err = NoErr)
               => /\ last'.call = {"AddEntry"}
                  /\ store' = store \cup last'.lease
       ]_vars

\* the lookup for a host that holds a lease has failed, and the call goes on to
\* its first attempt
C18_Witness ==
  /\ last.call = {"LeaseForUnderlayIP"}
  /\ last.callErr # NoErr
  /\ last.op = "none"
  /\ pc[last.c] = "all"
  /\ DBLeaseFor(arg[last.c]) # {}
  /\ granted[arg[last.c]] # {}

(***************************************************************************)
(* The race of the daemons for their first lease, with a store that rejects *)
(* duplicates and never fails otherwise.                                    *)
(***************************************************************************)
\* AcquireSubnetLease(c.UnderlayIP) by a daemon whose host has no lease
RaceAcquire(c) ==
  /\ DBLeaseFor(UnderlayIP(c)) = {}
  /\ LookupAbsent(c, UnderlayIP(c), NoErr)

\* AcquireSubnetLease(c.UnderlayIP) by a daemon whose host has its lease
RaceRenew(c) ==
  /\ DBLeaseFor(UnderlayIP(c)) # {}
  /\ LookupFound(c, UnderlayIP(c))

\* the next step of daemon c
RaceStep(c) ==
  \/ NewLeaseController(c)
  \/ MigrateOK(c)
  \/ RaceAcquire(c)
  \/ RaceRenew(c)
  \/ AllOK(c)
  \/ Decide(c)
  \/ AddEntryOK(c)
  \/ AddEntryConflict(c)

NextRace == \E c \in Controllers : RaceStep(c)

\* as many attempts and as many subnets as there are daemons, or more
InitRace ==
  /\ Init
  /\ attempts = MaxAcquireAttempts
  /\ attempts >= Cardinality(Controllers)
  /\ NumSubnets >= Cardinality(Controllers)

\* every daemon keeps taking steps while it has one to take
SpecRace ==
  InitRace /\ [][NextRace]_vars /\ \A c \in Controllers : WF_vars(RaceStep(c))

\* C19: daemons of distinct hosts that race for their first lease, with a store
\* that fails only by rejecting duplicates, with as many subnets and attempts as
\* daemons and with fair scheduling, all end up holding a lease that their
\* acquisition returned, and keep it; no acquisition returns an error; an insert is rejected
\* only for a subnet that another host inserted after the loser's read, and no
\* daemon fails more than N-1 attempts.
C19_Convergence ==
  /\ <>[](\A c \in Controllers :
            /\ pc[c] = "ready"
            /\ DBLeaseFor(UnderlayIP(c)) # {}
            /\ granted[UnderlayIP(c)] = SubnetsOf(DBLeaseFor(UnderlayIP(c))))
  /\ [](/\ \A c \in Controllers : numErrs[c] <= Cardinality(Controllers) - 1
        /\ last.op = "AcquireSubnetLease" => last.err = NoErr /\ last.lease # Nil)
  /\ [][\A c \in Controllers :
          (last'.c = c /\ last'.call = {"AddEntry"} /\ last'.callErr # NoErr)
          => /\ last'.callErr = ErrDuplicate
             /\ \E l \in store : /\ l.UnderlayIP # arg[c]
                                 /\ {l.OverlaySubnet} = SubnetsOf(cand[c])
                                 /\ l.OverlaySubnet \notin taken[c]
       ]_vars

\* a daemon lost the race once and got its lease on its second attempt
C19_Witness ==
  /\ last.op = "AcquireSubnetLease"
  /\ last.err = NoErr
  /\ last.made = 2
  /\ \A c \in Controllers : DBLeaseFor(UnderlayIP(c)) # {}

\* a controller built with any AcquireSubnetLeaseAttempts from 0 upwards
InitAnyAttempts ==
  /\ store = {}
  /\ applied = {}
  /\ attempts \in 0..MaxAcquireAttempts
  /\ pc = [c \in Controllers |-> "new"]
  /\ nErrors = [c \in Controllers |-> 0]
  /\ migrated = [c \in Controllers |-> FALSE]
  /\ arg = [c \in Controllers |-> ""]
  /\ numErrs = [c \in Controllers |-> 0]
  /\ taken = [c \in Controllers |-> {}]
  /\ cand = [c \in Controllers |-> Nil]
  /\ made = [c \in Controllers |-> 0]
  /\ granted = [h \in Hosts |-> {}]
  /\ last = NoStep
  /\ uniqueSubnet = TRUE
  /\ InitVeth
  /\ nsPath = [host |-> HostPath, container |-> ContainerPath]

SpecAnyAttempts == InitAnyAttempts /\ [][Next]_vars

\* C20 as stated: for every AcquireSubnetLeaseAttempts from 0 upwards, an
\* AcquireSubnetLease(h) that returns no error returns a lease, of host h, that
\* is in the store when the call returns; no call returns neither a lease nor an
\* error, and none returns a lease together with an error.
C20_SuccessMeansLease ==
  last.op = "AcquireSubnetLease"
    => /\ last.err = NoErr
            => /\ last.lease # Nil
               /\ \A l \in last.lease : l.UnderlayIP = last.arg
               /\ last.lease \subseteq store
       /\ ~(last.lease = Nil /\ last.err = NoErr)
       /\ ~(last.lease # Nil /\ last.err # NoErr)

=============================================================================
